---- MODULE Spec2Model ----
(***************************************************************************)
(* Model of src/src/app.py: a one-shot Last.fm pipeline                    *)
(*   get_api_key -> fetch_top_artists -> top_artists_to_df ->              *)
(*   enrich_with_tags -> sort -> plot_scatter -> plot_top_tags_bar ->      *)
(*   save_to_sqlite                                                        *)
(* JSON values are records; a Python dict is a TLA+ record and "k in d"    *)
(* is k \in DOMAIN d.  A value whose Python type matters is [t, v]: t is   *)
(* the type, v the dict itself or the scalar or list wrapped in a record.  *)
(* Numeric strings are sequences of characters, parsed by to_numeric.      *)
(***************************************************************************)
EXTENDS Integers, Sequences, FiniteSets, TLC

VARIABLES pc, run, environ, api_key, data, df, idx, acc, requests, responses,
          limit_per_artist, top_n, counts, conn, pending, store, exc, trace,
          saveCalls, storeAtStart, lastSaved, failedSince, enrichArg

vars == <<pc, run, environ, api_key, data, df, idx, acc, requests, responses,
          limit_per_artist, top_n, counts, conn, pending, store, exc, trace,
          saveCalls, storeAtStart, lastSaved, failedSince, enrichArg>>

(* ------------------------------ bounds -------------------------------- *)
MaxRuns == 2
MaxArtists == 2
MaxTags == 2
MaxLimit == 2
MaxTopN == 2

(* ------------------------- program constants -------------------------- *)
MainChartLimit == 50
MainLimitPerArtist == 5
MainTopN == 10

(* ------------------------------ helpers ------------------------------- *)
Min(a, b) == IF a <= b THEN a ELSE b
Max(a, b) == IF a >= b THEN a ELSE b

RECURSIVE Gcd(_, _)
Gcd(a, b) == IF b = 0 THEN a ELSE Gcd(b, a % b)

\* Python s[:n] for a list s, n of either sign
Slice(s, n) ==
  IF n >= 0 THEN SubSeq(s, 1, Min(n, Len(s)))
            ELSE SubSeq(s, 1, Max(Len(s) + n, 0))

\* Python d.get(k, default)
DictGet(d, k, default) == IF k \in DOMAIN d THEN d[k] ELSE default

\* exceptions: the type, the pipeline step that raised, the keys its message lists
NoExc == [type |-> "None", step |-> "none", keys |-> {}]
Raise(type, step, keys) == [type |-> type, step |-> step, keys |-> keys]

(* --------------------------- numeric columns -------------------------- *)
NaN == [k |-> "nan", num |-> 0, den |-> 1]
Inf == [k |-> "inf", num |-> 1, den |-> 0]
Num(n) == [k |-> "num", num |-> n, den |-> 1]

Digits == {"0", "1", "2", "3", "4", "5", "6", "7", "8", "9"}
DigitVal(c) ==
  CASE c = "0" -> 0 [] c = "1" -> 1 [] c = "2" -> 2 [] c = "3" -> 3
    [] c = "4" -> 4 [] c = "5" -> 5 [] c = "6" -> 6 [] c = "7" -> 7
    [] c = "8" -> 8 [] c = "9" -> 9

RECURSIVE DecimalValue(_)
DecimalValue(s) ==
  IF s = <<>> THEN 0
  ELSE 10 * DecimalValue(SubSeq(s, 1, Len(s) - 1)) + DigitVal(s[Len(s)])

\* pd.to_numeric(x, errors="coerce") on one cell: unparseable text becomes NaN
to_numeric(raw) ==
  IF raw # <<>> /\ \A j \in 1..Len(raw) : raw[j] \in Digits
  THEN Num(DecimalValue(raw))
  ELSE NaN

\* a division that maps every zero divisor to NaN
DivideNaNOnZero(p, l) ==
  IF p.k = "nan" \/ l.k = "nan" \/ l.num = 0 THEN NaN
  ELSE LET g == Gcd(p.num, l.num)
       IN  [k |-> "num", num |-> p.num \div g, den |-> l.num \div g]

\* float64 division of two cells: x/0 is inf, 0/0 and NaN operands are NaN
Divide(p, l) ==
  IF p.k = "nan" \/ l.k = "nan" THEN NaN
  ELSE IF l.num = 0 THEN (IF p.num = 0 THEN NaN ELSE Inf)
  ELSE LET g == Gcd(p.num, l.num)
       IN  [k |-> "num", num |-> p.num \div g, den |-> l.num \div g]

(* ---------------------------- top_artists_to_df ----------------------- *)
RequiredColumns == {"name", "listeners", "playcount", "url"}

\* pd.DataFrame(list of dicts): the columns are the union of the dicts' keys
Columns(artists) == UNION {DOMAIN artists[j] : j \in 1..Len(artists)}

\* Python "artist" in v, by the type of v
ContainsArtist(v) ==
  CASE v.t = "dict" -> IF "artist" \in DOMAIN v.v THEN "yes" ELSE "no"
    [] v.t = "str"  -> IF v.v.str \in {"artist", "artists"} THEN "yes" ELSE "no"
    [] v.t = "list" -> IF \E j \in 1..Len(v.v.list) : v.v.list[j] = "artist"
                       THEN "yes" ELSE "no"
    [] OTHER        -> "TypeError"

ProjectRow(r) ==
  LET l == to_numeric(r.listeners)
      p == to_numeric(r.playcount)
  IN  [name |-> r.name, listeners |-> l, playcount |-> p, url |-> r.url,
       engagement |-> Divide(p, l)]

Ok(table) == [exc |-> NoExc, df |-> table]
Fail(e) == [exc |-> e, df |-> <<>>]

top_artists_to_df(d) ==
  IF "artists" \notin DOMAIN d
  THEN Fail(Raise("ValueError", "top_artists_to_df", DOMAIN d))
  ELSE LET has == ContainsArtist(d.artists)
       IN  IF has = "TypeError"
           THEN Fail(Raise("TypeError", "top_artists_to_df", {}))
           ELSE IF has = "no"
           THEN Fail(Raise("ValueError", "top_artists_to_df", DOMAIN d))
           ELSE IF d.artists.t # "dict"
           THEN Fail(Raise("TypeError", "top_artists_to_df", {}))
           ELSE LET artists == d.artists.v.artist
                IN  IF ~(RequiredColumns \subseteq Columns(artists))
                    THEN Fail(Raise("KeyError", "top_artists_to_df", {}))
                    ELSE Ok([j \in 1..Len(artists) |-> ProjectRow(artists[j])])

(* --------------------------- get_artist_top_tags ---------------------- *)
\* t.get(k) is truthy: the key is present and its value is not the empty string
Truthy(t, k) == k \in DOMAIN t /\ t[k] # ""

RECURSIVE NamesOf(_)
NamesOf(tags) ==
  IF tags = <<>> THEN <<>>
  ELSE (IF Truthy(tags[1], "name") THEN <<tags[1].name>> ELSE <<>>)
       \o NamesOf(Tail(tags))

\* the nameless objects skipped before the cut instead of after it
get_artist_top_tags_filter_first(resp, limit) ==
  LET tags == DictGet(DictGet(resp, "toptags", <<>>), "tag", <<>>)
  IN  Slice(NamesOf(tags), limit)

\* the cut to `limit` left out
get_artist_top_tags_uncut(resp, limit) ==
  LET tags == DictGet(DictGet(resp, "toptags", <<>>), "tag", <<>>)
  IN  NamesOf(tags)

\* lines 71-72, applied to the JSON that lastfm_get returned
get_artist_top_tags(resp, limit) ==
  LET tags == DictGet(DictGet(resp, "toptags", <<>>), "tag", <<>>)
  IN  NamesOf(Slice(tags, limit))

(* ---------------------------- plot_top_tags_bar ----------------------- *)
NaCell == [na |-> TRUE, v |-> ""]
Cell(x) == [na |-> FALSE, v |-> x]

\* Series.explode(): one cell per list element, one NaN cell for an empty list
RECURSIVE Explode(_)
Explode(col) ==
  IF col = <<>> THEN <<>>
  ELSE (IF col[1] = <<>> THEN <<NaCell>>
        ELSE [j \in 1..Len(col[1]) |-> Cell(col[1][j])])
       \o Explode(Tail(col))

IsPresent(c) == ~c.na
DropNa(cells) == SelectSeq(cells, IsPresent)

Occurrences(cells, x) == Cardinality({j \in 1..Len(cells) : cells[j].v = x})

\* the distinct values, in the order of their first occurrence
RECURSIVE FirstSeen(_, _)
FirstSeen(cells, seen) ==
  IF cells = <<>> THEN <<>>
  ELSE IF cells[1].v \in seen THEN FirstSeen(Tail(cells), seen)
  ELSE <<cells[1].v>> \o FirstSeen(Tail(cells), seen \cup {cells[1].v})

\* stable insertion into a sequence sorted by descending count
RECURSIVE InsertDesc(_, _)
InsertDesc(sorted, x) ==
  IF sorted = <<>> THEN <<x>>
  ELSE IF sorted[1].artists_count >= x.artists_count
       THEN <<sorted[1]>> \o InsertDesc(Tail(sorted), x)
       ELSE <<x>> \o sorted

RECURSIVE SortDesc(_)
SortDesc(s) ==
  IF s = <<>> THEN <<>>
  ELSE InsertDesc(SortDesc(SubSeq(s, 1, Len(s) - 1)), s[Len(s)])

\* the counts left in first-seen order (sort=False)
value_counts_unsorted(cells) ==
  LET tags == FirstSeen(cells, {})
  IN  [j \in 1..Len(tags) |->
         [tag |-> tags[j], artists_count |-> Occurrences(cells, tags[j])]]

\* Series.value_counts(): descending by count, ties in first-seen order
value_counts(cells) ==
  LET tags == FirstSeen(cells, {})
  IN  SortDesc([j \in 1..Len(tags) |->
                 [tag |-> tags[j], artists_count |-> Occurrences(cells, tags[j])]])

TopTagsColumn(table) == [j \in 1..Len(table) |-> table[j].top_tags]

\* lines 107-108 and 116: the table of counts that is returned
plot_top_tags_bar(table, n) ==
  Slice(value_counts(DropNa(Explode(TopTagsColumn(table)))), n)

(* ------------------------------ enrich_with_tags ---------------------- *)
\* line 78: the new column is aligned with the rows by position
AttachTags(table, tags) ==
  [j \in 1..Len(table) |->
     [name |-> table[j].name, listeners |-> table[j].listeners,
      playcount |-> table[j].playcount, url |-> table[j].url,
      engagement |-> table[j].engagement, top_tags |-> tags[j]]]

\* one entry of the log of lastfm_get calls: the method asked for, the artist
\* parameter ("" for the chart), and whether the call returned or raised
TagCall(artist, status) ==
  [method |-> "artist.gettoptags", artist |-> artist, status |-> status]
ChartCall(status) ==
  [method |-> "chart.gettopartists", artist |-> "", status |-> status,
   limit |-> MainChartLimit]

(* -------------------------------- save_to_sqlite ---------------------- *)
\* if_exists="append" in place of "replace"
ToSqlAppend(old, rows) == old \o rows

\* DataFrame.to_sql(table, if_exists="replace"): the rows of the table afterwards
ToSql(old, rows) == rows

\* what a to_sql that raises can leave behind: the table untouched (it raised
\* before the old table was dropped) or dropped and recreated without rows
ToSqlFailureOutcomes(old) == {old, <<>>}

\* the close placed after the write instead of in a finally clause
ConnClosedOnSuccessOnly(e) == IF e = NoExc THEN "closed" ELSE "open"

\* the finally clause of lines 87-88
ConnAfterFinally(e) == "closed"

(* ------------------------------------ main ---------------------------- *)
StepOrder ==
  <<"get_api_key", "fetch_top_artists", "top_artists_to_df", "enrich_with_tags",
    "sort_values", "plot_scatter_listeners_vs_playcount", "plot_top_tags_bar",
    "save_to_sqlite">>

StepIndex(step) == CHOOSE j \in 1..Len(StepOrder) : StepOrder[j] = step

\* the save moved up, before the two plots
NextStepSaveBeforePlots(step) ==
  CASE step = "sort_values" -> "save_to_sqlite"
    [] step = "save_to_sqlite" -> "plot_scatter_listeners_vs_playcount"
    [] step = "plot_top_tags_bar" -> "done"
    [] OTHER -> StepOrder[StepIndex(step) + 1]

\* the statement of main that follows a step which returned
NextStep(step) ==
  IF StepIndex(step) = Len(StepOrder) THEN "done"
  ELSE StepOrder[StepIndex(step) + 1]

Complete(step) ==
  /\ trace' = Append(trace, step)
  /\ pc' = NextStep(step)
  /\ exc' = exc

\* an exception nobody catches: main is left, nothing after the raising call runs
Abort(e) ==
  /\ pc' = "aborted"
  /\ exc' = e
  /\ trace' = trace

cfgVars == <<run, environ, limit_per_artist, top_n, storeAtStart>>
dbVars == <<conn, pending, store, saveCalls, lastSaved, failedSince>>
netVars == <<requests, responses>>
enrVars == <<idx, acc, enrichArg>>

(* ------------------------------- input sets --------------------------- *)
SeqsUpTo(S, n) == UNION {[1..m -> S] : m \in 0..n}

Environs ==
  {[LASTFM_API_KEY |-> "KEY"], [LASTFM_API_KEY |-> ""], [HOME |-> "/root"]}

NoData == [unset |-> "1"]

ArtistObj(name, listeners, playcount) ==
  [name |-> name, listeners |-> listeners, playcount |-> playcount,
   url |-> "u", mbid |-> "m"]

Chart(artists) == [artists |-> [t |-> "dict", v |-> [artist |-> artists]]]

RawNumbers == {<<"0">>, <<"2">>, <<"1", "0">>, <<"x">>}

ArtistObjs ==
  {ArtistObj(n, l, p) : n \in {"A", "B"}, l \in RawNumbers, p \in RawNumbers}

MalformedPayloads ==
  { [foo |-> "1"],
    [error |-> "6", message |-> "m"],
    [artists |-> [t |-> "dict", v |-> [attr |-> "a"]]],
    [artists |-> [t |-> "dict", v |-> [attr |-> "a"]], foo |-> "1"],
    [artists |-> [t |-> "int", v |-> [int |-> 1]]],
    [artists |-> [t |-> "null", v |-> [null |-> "null"]]],
    [artists |-> [t |-> "str", v |-> [str |-> "none"]]],
    [artists |-> [t |-> "str", v |-> [str |-> "artists"]]],
    [artists |-> [t |-> "list", v |-> [list |-> <<"artist">>]]],
    [artists |-> [t |-> "list", v |-> [list |-> <<"x">>]]] }

ParsePayloads ==
  MalformedPayloads \cup {Chart(a) : a \in SeqsUpTo(ArtistObjs, MaxArtists)}

PipelineArtists ==
  <<ArtistObj("A", <<"1", "0">>, <<"2">>), ArtistObj("B", <<"0">>, <<"2">>),
    ArtistObj("A", <<"x">>, <<"0">>)>>

PipelinePayloads ==
  {[foo |-> "1"]} \cup
  {Chart(SubSeq(PipelineArtists, 1, m)) : m \in 0..Min(MaxArtists, Len(PipelineArtists))}

TagObjs == {[name |-> "rock"], [name |-> "pop"], [name |-> ""], [count |-> "1"]}

NoTagResponses == {[error |-> "6"], [toptags |-> [attr |-> "a"]]}

TagResponses ==
  NoTagResponses \cup {[toptags |-> [tag |-> s]] : s \in SeqsUpTo(TagObjs, MaxTags)}

PipelineResponses ==
  {[error |-> "6"], [toptags |-> [tag |-> <<[name |-> "rock"]>>]],
   [toptags |-> [tag |-> <<[name |-> "pop"], [count |-> "1"], [name |-> "rock"]>>]]}

EnrichResponses ==
  PipelineResponses \cup
  {[toptags |-> [tag |-> <<[name |-> "rock"], [name |-> "pop"]>>]]}

TableOf(names) ==
  [j \in 1..Len(names) |-> ProjectRow(ArtistObj(names[j], <<"2">>, <<"1", "0">>))]

EnrichTables == {TableOf(names) : names \in SeqsUpTo({"A", "B"}, MaxArtists)}

SingleRowTables == {TableOf(<<n>>) : n \in {"A", "B"}}

BarTagLists == SeqsUpTo({"rock", "pop"}, MaxTags)

BarTables ==
  {AttachTags(TableOf([j \in 1..Len(col) |-> "A"]), col) :
     col \in SeqsUpTo(BarTagLists, MaxArtists)}

(* -------------------------------- actions ----------------------------- *)
\* lines 14-20 and 120
GetApiKey ==
  /\ pc = "get_api_key"
  /\ IF Truthy(environ, "LASTFM_API_KEY")
     THEN /\ api_key' = environ.LASTFM_API_KEY
          /\ Complete("get_api_key")
     ELSE /\ api_key' = api_key
          /\ Abort(Raise("ValueError", "get_api_key", {}))
  /\ UNCHANGED <<cfgVars, dbVars, netVars, enrVars, data, df, counts>>

\* lines 23-38 and 123: the request returns a JSON document
FetchTopArtists(payloads) ==
  /\ pc = "fetch_top_artists"
  /\ requests' = Append(requests, ChartCall("ok"))
  /\ \E d \in payloads : data' = d
  /\ Complete("fetch_top_artists")
  /\ UNCHANGED <<cfgVars, dbVars, enrVars, responses, api_key, df, counts>>

\* lines 25-26: the request fails or the status is not a success
FetchRaise ==
  /\ pc = "fetch_top_artists"
  /\ requests' = Append(requests, ChartCall("raised"))
  /\ Abort(Raise("HTTPError", "fetch_top_artists", {}))
  /\ UNCHANGED <<cfgVars, dbVars, enrVars, responses, api_key, data, df, counts>>

\* lines 41-59 and 126
TopArtistsToDf ==
  /\ pc = "top_artists_to_df"
  /\ LET r == top_artists_to_df(data)
     IN  IF r.exc = NoExc
         THEN /\ df' = r.df
              /\ Complete("top_artists_to_df")
         ELSE /\ df' = df
              /\ Abort(r.exc)
  /\ UNCHANGED <<cfgVars, dbVars, netVars, enrVars, api_key, data, counts>>

\* line 78, one row of the apply: the request for the next artist returns
EnrichRow(tagResponses) ==
  /\ pc = "enrich_with_tags"
  /\ idx < Len(df)
  /\ \E resp \in tagResponses :
       /\ responses' = Append(responses, resp)
       /\ acc' = Append(acc, get_artist_top_tags(resp, limit_per_artist))
  /\ requests' = Append(requests, TagCall(df[idx + 1].name, "ok"))
  /\ idx' = idx + 1
  /\ UNCHANGED <<cfgVars, dbVars, enrichArg, api_key, data, df, counts, pc, exc, trace>>

\* the failed request caught inside the loop and replaced by an empty tag list
EnrichRaiseSwallowed ==
  /\ pc = "enrich_with_tags"
  /\ idx < Len(df)
  /\ requests' = Append(requests, TagCall(df[idx + 1].name, "raised"))
  /\ idx' = idx + 1
  /\ acc' = Append(acc, <<>>)
  /\ UNCHANGED <<cfgVars, dbVars, enrichArg, responses, api_key, data, df, counts,
                 pc, exc, trace>>

\* line 78, one row of the apply: the request for the next artist raises
EnrichRaise ==
  /\ pc = "enrich_with_tags"
  /\ idx < Len(df)
  /\ requests' = Append(requests, TagCall(df[idx + 1].name, "raised"))
  /\ idx' = idx + 1
  /\ acc' = <<>>
  /\ enrichArg' = df
  /\ Abort(Raise("HTTPError", "enrich_with_tags", {}))
  /\ UNCHANGED <<cfgVars, dbVars, responses, api_key, data, df, counts>>

\* lines 78-79 and 130: every row is done, the enriched copy is returned
EnrichReturn ==
  /\ pc = "enrich_with_tags"
  /\ idx = Len(df)
  /\ df' = AttachTags(df, acc)
  /\ enrichArg' = df
  /\ Complete("enrich_with_tags")
  /\ UNCHANGED <<cfgVars, dbVars, netVars, idx, acc, api_key, data, counts>>

\* lines 133-135: df_sorted is a local that is only printed
SortValues ==
  /\ pc = "sort_values"
  /\ Complete("sort_values")
  /\ UNCHANGED <<cfgVars, dbVars, netVars, enrVars, api_key, data, df, counts>>

\* lines 91-102 and 138-139
PlotScatter ==
  /\ pc = "plot_scatter_listeners_vs_playcount"
  /\ Complete("plot_scatter_listeners_vs_playcount")
  /\ UNCHANGED <<cfgVars, dbVars, netVars, enrVars, api_key, data, df, counts>>

\* lines 105-116 and 141
PlotTopTagsBar ==
  /\ pc = "plot_top_tags_bar"
  /\ counts' = plot_top_tags_bar(df, top_n)
  /\ Complete("plot_top_tags_bar")
  /\ UNCHANGED <<cfgVars, dbVars, netVars, enrVars, api_key, data, df>>

\* lines 95-100 and 110-114: the plotting backend raises
PlotRaise ==
  /\ pc \in {"plot_scatter_listeners_vs_playcount", "plot_top_tags_bar"}
  /\ Abort(Raise("RuntimeError", pc, {}))
  /\ UNCHANGED <<cfgVars, dbVars, netVars, enrVars, api_key, data, df, counts>>

\* line 84
SaveConnect ==
  /\ pc = "save_to_sqlite"
  /\ saveCalls' = saveCalls + 1
  /\ conn' = "open"
  /\ pc' = "save_write"
  /\ UNCHANGED <<cfgVars, netVars, enrVars, api_key, data, df, counts, pending,
                 store, lastSaved, failedSince, exc, trace>>

\* line 84: the store file cannot be opened
SaveConnectRaise ==
  /\ pc = "save_to_sqlite"
  /\ saveCalls' = saveCalls + 1
  /\ Abort(Raise("OperationalError", "save_to_sqlite", {}))
  /\ UNCHANGED <<cfgVars, netVars, enrVars, api_key, data, df, counts, conn,
                 pending, store, lastSaved, failedSince>>

\* line 86: the write commits
SaveToSql ==
  /\ pc = "save_write"
  /\ store' = ToSql(store, df)
  /\ lastSaved' = df
  /\ failedSince' = FALSE
  /\ pending' = NoExc
  /\ pc' = "save_close"
  /\ UNCHANGED <<cfgVars, netVars, enrVars, api_key, data, df, counts, conn,
                 saveCalls, exc, trace>>

\* line 86: the write raises
SaveToSqlRaise ==
  /\ pc = "save_write"
  /\ store' \in ToSqlFailureOutcomes(store)
  /\ failedSince' = TRUE
  /\ pending' = Raise("DatabaseError", "save_to_sqlite", {})
  /\ pc' = "save_close"
  /\ UNCHANGED <<cfgVars, netVars, enrVars, api_key, data, df, counts, conn,
                 saveCalls, lastSaved, exc, trace>>

\* lines 87-88, then the return to main (line 145) or the re-raise
SaveClose ==
  /\ pc = "save_close"
  /\ conn' = ConnAfterFinally(pending)
  /\ pending' = NoExc
  /\ IF pending = NoExc
     THEN Complete("save_to_sqlite")
     ELSE Abort(pending)
  /\ UNCHANGED <<cfgVars, netVars, enrVars, api_key, data, df, counts, store,
                 saveCalls, lastSaved, failedSince>>

\* lines 148-149: the script is started again against the same store file
StartRun ==
  /\ pc \in {"done", "aborted"}
  /\ run < MaxRuns
  /\ run' = run + 1
  /\ environ' \in Environs
  /\ storeAtStart' = store
  /\ pc' = StepOrder[1]
  /\ api_key' = ""
  /\ data' = NoData
  /\ df' = <<>>
  /\ idx' = 0
  /\ acc' = <<>>
  /\ enrichArg' = <<>>
  /\ requests' = <<>>
  /\ responses' = <<>>
  /\ counts' = <<>>
  /\ conn' = "none"
  /\ saveCalls' = 0
  /\ exc' = NoExc
  /\ trace' = <<>>
  /\ UNCHANGED <<limit_per_artist, top_n, pending, store, lastSaved, failedSince>>

(* ---------------------------- specifications -------------------------- *)
Fresh ==
  /\ run = 1
  /\ api_key = ""
  /\ data = NoData
  /\ df = <<>>
  /\ idx = 0
  /\ acc = <<>>
  /\ enrichArg = <<>>
  /\ requests = <<>>
  /\ responses = <<>>
  /\ counts = <<>>
  /\ conn = "none"
  /\ pending = NoExc
  /\ store = <<>>
  /\ storeAtStart = <<>>
  /\ lastSaved = <<>>
  /\ failedSince = FALSE
  /\ saveCalls = 0
  /\ exc = NoExc
  /\ trace = <<>>

\* the script, run up to MaxRuns times against one store file
Init ==
  /\ pc = StepOrder[1]
  /\ environ \in Environs
  /\ limit_per_artist = MainLimitPerArtist
  /\ top_n = MainTopN
  /\ Fresh

Next ==
  \/ GetApiKey
  \/ FetchTopArtists(PipelinePayloads)
  \/ FetchRaise
  \/ TopArtistsToDf
  \/ EnrichRow(PipelineResponses)
  \/ EnrichRaise
  \/ EnrichReturn
  \/ SortValues
  \/ PlotScatter
  \/ PlotTopTagsBar
  \/ PlotRaise
  \/ SaveConnect
  \/ SaveConnectRaise
  \/ SaveToSql
  \/ SaveToSqlRaise
  \/ SaveClose
  \/ StartRun

Spec == Init /\ [][Next]_vars

\* top_artists_to_df applied to every payload of ParsePayloads
InitParse ==
  /\ pc = "top_artists_to_df"
  /\ environ = [LASTFM_API_KEY |-> "KEY"]
  /\ limit_per_artist = MainLimitPerArtist
  /\ top_n = MainTopN
  /\ data \in ParsePayloads
  /\ api_key = ""
  /\ run = 1 /\ df = <<>> /\ idx = 0 /\ acc = <<>> /\ enrichArg = <<>>
  /\ requests = <<>> /\ responses = <<>> /\ counts = <<>> /\ conn = "none"
  /\ pending = NoExc /\ store = <<>> /\ storeAtStart = <<>> /\ lastSaved = <<>>
  /\ failedSince = FALSE /\ saveCalls = 0 /\ exc = NoExc /\ trace = <<>>

NextParse == TopArtistsToDf

SpecParse == InitParse /\ [][NextParse]_vars

\* enrich_with_tags applied to every table of EnrichTables, with every limit
InitEnrich ==
  /\ pc = "enrich_with_tags"
  /\ environ = [LASTFM_API_KEY |-> "KEY"]
  /\ limit_per_artist \in -1..MaxLimit
  /\ top_n = MainTopN
  /\ df \in EnrichTables
  /\ api_key = "KEY"
  /\ data = NoData
  /\ run = 1 /\ idx = 0 /\ acc = <<>> /\ enrichArg = <<>>
  /\ requests = <<>> /\ responses = <<>> /\ counts = <<>> /\ conn = "none"
  /\ pending = NoExc /\ store = <<>> /\ storeAtStart = <<>> /\ lastSaved = <<>>
  /\ failedSince = FALSE /\ saveCalls = 0 /\ exc = NoExc /\ trace = <<>>

NextEnrich ==
  \/ EnrichRow(EnrichResponses)
  \/ EnrichRaise
  \/ EnrichReturn

SpecEnrich == InitEnrich /\ [][NextEnrich]_vars

\* get_artist_top_tags applied to every response of TagResponses, with every limit
InitTags ==
  /\ pc = "enrich_with_tags"
  /\ environ = [LASTFM_API_KEY |-> "KEY"]
  /\ limit_per_artist \in -1..MaxLimit
  /\ top_n = MainTopN
  /\ df \in SingleRowTables
  /\ api_key = "KEY"
  /\ data = NoData
  /\ run = 1 /\ idx = 0 /\ acc = <<>> /\ enrichArg = <<>>
  /\ requests = <<>> /\ responses = <<>> /\ counts = <<>> /\ conn = "none"
  /\ pending = NoExc /\ store = <<>> /\ storeAtStart = <<>> /\ lastSaved = <<>>
  /\ failedSince = FALSE /\ saveCalls = 0 /\ exc = NoExc /\ trace = <<>>

NextTags ==
  \/ EnrichRow(TagResponses)
  \/ EnrichRaise
  \/ EnrichReturn

SpecTags == InitTags /\ [][NextTags]_vars

\* plot_top_tags_bar applied to every table of BarTables, with every top_n
InitBar ==
  /\ pc = "plot_top_tags_bar"
  /\ environ = [LASTFM_API_KEY |-> "KEY"]
  /\ limit_per_artist = MainLimitPerArtist
  /\ df \in BarTables
  /\ top_n \in 0..MaxTopN
  /\ api_key = "KEY"
  /\ data = NoData
  /\ run = 1 /\ idx = 0 /\ acc = <<>> /\ enrichArg = <<>>
  /\ requests = <<>> /\ responses = <<>> /\ counts = <<>> /\ conn = "none"
  /\ pending = NoExc /\ store = <<>> /\ storeAtStart = <<>> /\ lastSaved = <<>>
  /\ failedSince = FALSE /\ saveCalls = 0 /\ exc = NoExc /\ trace = <<>>

NextBar ==
  \/ PlotTopTagsBar
  \/ PlotRaise

SpecBar == InitBar /\ [][NextBar]_vars

(* ------------------------------- the claims --------------------------- *)
Parsed == pc # "top_artists_to_df"

\* the payload has the nested shape artists -> artist
HasShape(d) ==
  /\ "artists" \in DOMAIN d
  /\ d.artists.t = "dict"
  /\ "artist" \in DOMAIN d.artists.v

EntriesOf(d) == d.artists.v.artist

\* C4 as stated: for every L >= 0, L = 0 included, top_artists_to_df applied to
\* a well-formed payload of L entries returns a table of exactly L rows and
\* does not raise.
C4_EveryLength ==
  (Parsed /\ HasShape(data)) =>
     (exc = NoExc /\ Len(df) = Len(EntriesOf(data)))

C6_AlwaysMalformedError ==
  (Parsed /\ ~HasShape(data)) =>
     (exc.type = "ValueError" /\ exc.keys = DOMAIN data /\ df = <<>>)

Enriched == "enrich_with_tags" \in {trace[j] : j \in 1..Len(trace)}

\* the tag objects of a response, read off the JSON
TagObjectsOf(resp) ==
  IF "toptags" \in DOMAIN resp /\ "tag" \in DOMAIN resp.toptags
  THEN resp.toptags.tag ELSE <<>>

\* the positions, among the first n tag objects, that carry a non-empty name
NamedWithin(tags, n) ==
  {i \in 1..Len(tags) : i <= n /\ "name" \in DOMAIN tags[i] /\ tags[i].name # ""}

\* the k-th smallest element of a set of positions
KthOf(S, k) == CHOOSE i \in S : Cardinality({x \in S : x < i}) = k - 1

\* C10: for every tag response and every limit >= 0, get_artist_top_tags
\* returns exactly the names of the tag objects with a non-empty name among the
\* first `limit` tag objects, in response order (truncation comes before the
\* skipping of nameless objects); a response without toptags/tag gives [].
C10_NamesOfFirstLimit ==
  limit_per_artist >= 0 =>
    \A j \in 1..Len(acc) :
      LET tags == TagObjectsOf(responses[j])
          named == NamedWithin(tags, limit_per_artist)
      IN  /\ Len(acc[j]) = Cardinality(named)
          /\ \A k \in 1..Len(acc[j]) : acc[j][k] = tags[KthOf(named, k)].name
          /\ ("toptags" \notin DOMAIN responses[j]
              \/ "tag" \notin DOMAIN responses[j].toptags) => acc[j] = <<>>

\* a nameless object inside the first `limit` objects is not made up for by the
\* named object that follows the cut
C10_Witness ==
  /\ limit_per_artist = 1
  /\ Len(acc) = 1
  /\ responses[1] = [toptags |-> [tag |-> <<[count |-> "1"], [name |-> "rock"]>>]]
  /\ acc[1] = <<>>

\* C3 as stated: for every table and every limit_per_artist, when all tag
\* requests succeed enrich_with_tags returns as many rows as it was given, row i
\* being the artist of input row i, each top_tags list of length at most
\* limit_per_artist.
C3_EveryLimit ==
  Enriched =>
     /\ Len(df) = Len(enrichArg)
     /\ \A i \in 1..Len(df) :
          /\ df[i].name = enrichArg[i].name
          /\ df[i].listeners = enrichArg[i].listeners
          /\ df[i].playcount = enrichArg[i].playcount
          /\ requests[Len(requests) - Len(df) + i].artist = enrichArg[i].name
          /\ Len(df[i].top_tags) <= limit_per_artist

\* C3 amended: the same, for every limit_per_artist >= 0 (a negative limit makes
\* the slice drop tags from the end, so the lists can be longer than the limit).
C3_NonNegativeLimit ==
  (Enriched /\ limit_per_artist >= 0) =>
     /\ Len(df) = Len(enrichArg)
     /\ \A i \in 1..Len(df) :
          /\ df[i].name = enrichArg[i].name
          /\ df[i].listeners = enrichArg[i].listeners
          /\ df[i].playcount = enrichArg[i].playcount
          /\ requests[Len(requests) - Len(df) + i].artist = enrichArg[i].name
          /\ Len(df[i].top_tags) <= limit_per_artist

\* two rows enriched, the second one's tags cut down to the limit
C3_Witness ==
  /\ Enriched /\ limit_per_artist = 1 /\ Len(df) = 2
  /\ df[1].name = "B" /\ df[2].name = "A"
  /\ Len(TagObjectsOf(responses[2])) = 3
  /\ df[2].top_tags = <<"pop">> /\ df[1].top_tags = <<>>

BarDone == "plot_top_tags_bar" \in {trace[j] : j \in 1..Len(trace)}

RECURSIVE SumOfCounts(_)
SumOfCounts(c) ==
  IF c = <<>> THEN 0 ELSE c[1].artists_count + SumOfCounts(Tail(c))

\* the (row, position) pairs of the tag occurrences of a table
TagOccurrences(table) ==
  UNION {{<<i, k>> : k \in 1..Len(table[i].top_tags)} : i \in 1..Len(table)}

TagsIn(table) == {table[o[1]].top_tags[o[2]] : o \in TagOccurrences(table)}

OccurrencesOf(table, tag) ==
  Cardinality({o \in TagOccurrences(table) : table[o[1]].top_tags[o[2]] = tag})

SortedDescending(c) ==
  \A i, j \in 1..Len(c) : i < j => c[i].artists_count >= c[j].artists_count

\* C7 as stated: for every table and every top_n the counts returned by
\* plot_top_tags_bar sum to the number of tag occurrences of the whole table,
\* are sorted in descending order, and are at most top_n many.
C7_SumIsTotal ==
  BarDone =>
     /\ SumOfCounts(counts) = Cardinality(TagOccurrences(df))
     /\ SortedDescending(counts)
     /\ Len(counts) <= top_n

\* C7 amended: for every table and every top_n >= 0 the returned sequence is
\* sorted in descending order of count and has min(top_n, number of distinct
\* tags) entries, each the exact number of occurrences of a distinct tag, none
\* smaller than the count of a tag left out; so the counts sum to the total
\* number of tag occurrences when the table has at most top_n distinct tags,
\* and to less than it otherwise.
C7_SumOfTopN ==
  (BarDone /\ top_n >= 0) =>
     /\ SortedDescending(counts)
     /\ Len(counts) = Min(top_n, Cardinality(TagsIn(df)))
     /\ \A i \in 1..Len(counts) :
          /\ counts[i].tag \in TagsIn(df)
          /\ counts[i].artists_count = OccurrencesOf(df, counts[i].tag)
          /\ \A j \in 1..Len(counts) : counts[i].tag = counts[j].tag => i = j
          /\ \A t \in TagsIn(df) :
               t \notin {counts[j].tag : j \in 1..Len(counts)}
                 => OccurrencesOf(df, t) <= counts[i].artists_count
     /\ Cardinality(TagsIn(df)) <= top_n
          => SumOfCounts(counts) = Cardinality(TagOccurrences(df))
     /\ Cardinality(TagsIn(df)) > top_n
          => SumOfCounts(counts) < Cardinality(TagOccurrences(df))

\* two distinct tags and top_n = 1: only the more frequent one is returned
C7_Witness ==
  /\ BarDone /\ top_n = 1 /\ Len(df) = 2
  /\ df[1].top_tags = <<"pop">> /\ df[2].top_tags = <<"rock", "rock">>
  /\ counts = <<[tag |-> "rock", artists_count |-> 2]>>

StepsBeforeSave == SubSeq(StepOrder, 1, Len(StepOrder) - 1)

InsideSave == pc \in {"save_write", "save_close"}

TagCalls == SelectSeq(requests, LAMBDA r : r.method = "artist.gettoptags")

\* C1: in every run of main save_to_sqlite is called at most once, and only after
\* get_api_key, fetch_top_artists, top_artists_to_df, enrich_with_tags (a tag
\* request answered for every artist) and both plotting routines have returned;
\* once a step has raised, no later step runs and the store is not written.
C1_SaveOnlyAfterWholePipeline ==
  /\ saveCalls <= 1
  /\ Len(trace) <= Len(StepOrder)
  /\ trace = SubSeq(StepOrder, 1, Len(trace))
  /\ (saveCalls = 1 \/ InsideSave \/ store # storeAtStart) =>
        /\ saveCalls = 1
        /\ Len(trace) >= Len(StepsBeforeSave)
        /\ SubSeq(trace, 1, Len(StepsBeforeSave)) = StepsBeforeSave
        /\ Len(TagCalls) = Len(df)
        /\ \A j \in 1..Len(df) :
             /\ "top_tags" \in DOMAIN df[j]
             /\ TagCalls[j] = TagCall(df[j].name, "ok")
  /\ exc # NoExc =>
        /\ pc = "aborted"
        /\ trace = SubSeq(StepOrder, 1, StepIndex(exc.step) - 1)
        /\ exc.step # "save_to_sqlite" => (saveCalls = 0 /\ store = storeAtStart)

\* a run that reached the save after all seven steps, and wrote the store
C1_Witness ==
  /\ pc = "done" /\ saveCalls = 1 /\ Len(df) = 2
  /\ trace = StepOrder
  /\ store = df /\ store # storeAtStart

\* C2: if the tag request for the k-th artist fails, enrich_with_tags fails with
\* that error: the run is aborted by it, the table main holds has no top_tags
\* column, the failed request is the last one of the run (no retry, no request
\* for the artists after k), and the requests before it are those of rows 1..k-1.
C2_TagFailureAborts ==
  \A k \in 1..Len(TagCalls) :
     TagCalls[k].status = "raised" =>
        /\ k = Len(TagCalls)
        /\ requests[Len(requests)] = TagCalls[k]
        /\ pc = "aborted"
        /\ exc = Raise("HTTPError", "enrich_with_tags", {})
        /\ k <= Len(df)
        /\ \A j \in 1..k : TagCalls[j].artist = df[j].name
        /\ \A j \in 1..(k - 1) : TagCalls[j].status = "ok"
        /\ \A j \in 1..Len(df) : "top_tags" \notin DOMAIN df[j]
        /\ ~Enriched
        /\ acc = <<>>
        /\ saveCalls = 0

\* the request for the second of two artists failed
C2_Witness ==
  /\ pc = "aborted" /\ Len(df) = 2 /\ Len(TagCalls) = 2
  /\ TagCalls[1].status = "ok" /\ TagCalls[2].status = "raised"

\* C8: a connection opened by save_to_sqlite is closed when the call is left,
\* whether the table write returned or raised; outside the call no connection
\* is open.
C8_ConnectionClosedOnExit ==
  /\ conn = "open" => InsideSave
  /\ (saveCalls = 1 /\ ~InsideSave /\ pc # "save_to_sqlite") =>
        conn \in {"closed", "none"}
  /\ (pc = "done" \/ (pc = "aborted" /\ exc.type = "DatabaseError")) => conn = "closed"

\* the table write raised and the call was left with the connection closed
C8_Witness ==
  /\ pc = "aborted" /\ exc.type = "DatabaseError" /\ conn = "closed"

\* C9 as stated: after any sequence of runs the stored table holds exactly the
\* rows of the most recent completed save, and a run that aborts before the
\* persistence step leaves the store as the previous run left it.
C9_AlwaysLastCompletedSave ==
  /\ pc \in {"done", "aborted"} => store = lastSaved
  /\ (pc = "aborted" /\ exc.step # "save_to_sqlite") => store = storeAtStart

\* C9 amended: after any sequence of runs the stored table holds exactly the
\* rows of the most recent completed save, unless a later save raised inside
\* the table write, in which case it holds either those rows or no rows; rows
\* of earlier runs are never merged with or appended to newer ones, and a run
\* that aborts before the persistence step leaves the store as the previous run
\* left it.
C9_LastCompletedSaveUnlessWriteRaised ==
  /\ ~failedSince => store = lastSaved
  /\ failedSince => store \in {lastSaved, <<>>}
  /\ (pc = "aborted" /\ exc.step # "save_to_sqlite") => store = storeAtStart
  /\ (pc = "done") => (store = df /\ lastSaved = df)

\* a second run replaced the rows the first run had saved
C9_Witness ==
  /\ run = 2 /\ pc = "done"
  /\ storeAtStart # <<>> /\ Len(storeAtStart) = 2
  /\ Len(store) = 1 /\ store = lastSaved

====
